---- MODULE Spec2Model ----
(***************************************************************************)
(* Model of the gorm code-generation command of czx-command                *)
(* (src/cmd/orm/orm.go): the parsing of the ignore / retag / regrom-tag /  *)
(* data-type directives by Orm.formatGlobal, and the generation run        *)
(* Orm.run -> Orm.exec -> Orm.model / Orm.dao -> generator.Execute.        *)
(*                                                                         *)
(* A Go string is a sequence of tokens.  The separator characters "-",     *)
(* ">", "," and "@" are tokens of their own; every other token is a word   *)
(* that contains none of them, so splitting the token sequence is          *)
(* splitting the string.                                                   *)
(***************************************************************************)
EXTENDS Integers, Sequences, FiniteSets, TLC

\* ------------------------------------------------------------------------
\* Bounds of the model
\* ------------------------------------------------------------------------
\* total number of directives (retag + regrom-tag + ignore + data-type keys)
MaxDirectives == 2
\* number of entries of the --tables flag
MaxTables == 2

\* ------------------------------------------------------------------------
\* Strings
\* ------------------------------------------------------------------------
Arrow == <<"-", ">">>
Comma == <<",">>
At == <<"@">>
Star == <<"*">>
\* the literal ",omitempty" appended to a JSON tag
Omitempty == <<",", "omitempty">>

\* strings.Index(s, sep): first position where sep occurs in s, 0 if none
Index(s, sep) ==
  LET hits == {i \in 1..(Len(s) - Len(sep) + 1) : SubSeq(s, i, i + Len(sep) - 1) = sep}
  IN IF hits = {} THEN 0 ELSE CHOOSE i \in hits : \A j \in hits : i <= j

\* strings.Split(s, sep) for a non-empty sep
RECURSIVE Split(_, _)
Split(s, sep) ==
  LET i == Index(s, sep)
  IN IF i = 0 THEN <<s>>
     ELSE <<SubSeq(s, 1, i - 1)>> \o Split(SubSeq(s, i + Len(sep), Len(s)), sep)

\* ------------------------------------------------------------------------
\* Go maps
\* ------------------------------------------------------------------------
EmptyMap == [k \in {} |-> 0]
Has(m, k) == k \in DOMAIN m
Get(m, k, zero) == IF k \in DOMAIN m THEN m[k] ELSE zero
Put(m, k, v) == [x \in (DOMAIN m) \cup {k} |-> IF x = k THEN v ELSE m[x]]
\* maps.Copy(dst, src)
MapsCopy(dst, src) ==
  [x \in (DOMAIN dst) \cup (DOMAIN src) |-> IF x \in DOMAIN src THEN src[x] ELSE dst[x]]
\* maps.Clone(m)
MapsClone(m) == [x \in DOMAIN m |-> m[x]]

\* ------------------------------------------------------------------------
\* gen.ModelOpt values built by the command
\* ------------------------------------------------------------------------
FieldIgnore(names) == [kind |-> "FieldIgnore", names |-> names]
FieldJSONTag(column, tag) == [kind |-> "FieldJSONTag", column |-> column, tag |-> tag]
FieldGORMTag(column, value) == [kind |-> "FieldGORMTag", column |-> column, value |-> value]

\* ------------------------------------------------------------------------
\* Configuration the command is constructed with
\* ------------------------------------------------------------------------
Str(a, b) == a \o Arrow \o b
Str3(a, b, c) == a \o Arrow \o b \o Arrow \o c

RetagPool ==
  { Str3(Star, <<"a">>, <<"x">>),
    Str3(<<"t">>, <<"a">>, <<"x">>),
    Str3(<<"t">>, <<"b">>, <<"y">>),
    <<"t", "-", "a">> }

ReGromTagPool ==
  { Str3(Star, <<"a">>, <<"-">>),
    Str3(<<"t">>, <<"a">>, <<"c">>),
    Str(<<"t">>, <<"a">>) }

IgnorePool ==
  { Str(Star, <<"a", ",", "b">>),
    Str(<<"t">>, <<"b", ",", "c">>),
    Str3(<<"t">>, <<"a">>, <<"b">>) }

\* data-type keys, each with the function registered for it
DataTypeFnOf ==
  Put(Put(Put(EmptyMap, Str(Star, <<"a">>), "X"),
              Str(<<"t">>, <<"a">>), "Y"),
              <<"t", ">", "a">>, "W")

TablePool == { <<"t">>, <<"u", "@", "m">>, <<"t", "@", "m", "@", "x">> }

\* sequences over S of length at most n
SeqsUpTo(S, n) == UNION {[1..k -> S] : k \in 0..n}

\* the db.Migrator().GetTables() outcomes
DbTables == { <<>>, << <<"t">>, <<"u">> >> }

\* ------------------------------------------------------------------------
\* Orm.formatGlobal
\* ------------------------------------------------------------------------
\* The Orm fields formatGlobal works on, as NewOrmCommand leaves them; the
\* fields retags and regormtags are the function's two local maps.
NewOrmState ==
  [ err |-> FALSE, msg |-> <<>>,
    global |-> <<>>,
    retagopt |-> EmptyMap,
    regormtag |-> EmptyMap,
    ignoreopt |-> EmptyMap,
    types |-> EmptyMap,
    globalTypes |-> EmptyMap,
    fileNameStrategy |-> FALSE,
    retags |-> EmptyMap,
    regormtags |-> EmptyMap ]

Fail(st, text, directive) == [st EXCEPT !.err = TRUE, !.msg = <<text>> \o directive]

\* RetagStep without the continue of the global branch
RetagStep_NoContinue(st, retag) ==
  LET parts == Split(retag, Arrow)
  IN IF Len(parts) # 3 THEN Fail(st, "invalid retag format: ", retag)
     ELSE [st EXCEPT
             !.global = IF parts[1] = Star
                        THEN Append(@, FieldJSONTag(parts[2], parts[3] \o Omitempty))
                        ELSE @,
             !.retags = Put(@, parts[1],
                            Append(Get(@, parts[1], <<>>), <<parts[2], parts[3] \o Omitempty>>))]

\* one iteration of the loop over o.opt.retags
RetagStep(st, retag) ==
  LET parts == Split(retag, Arrow)
  IN IF Len(parts) # 3 THEN Fail(st, "invalid retag format: ", retag)
     ELSE IF parts[1] = Star
          THEN [st EXCEPT !.global = Append(@, FieldJSONTag(parts[2], parts[3] \o Omitempty))]
          ELSE [st EXCEPT !.retags =
                  Put(@, parts[1],
                      Append(Get(@, parts[1], <<>>), <<parts[2], parts[3] \o Omitempty>>))]

RECURSIVE RetagLoop(_, _, _)
RetagLoop(st, list, i) ==
  IF st.err \/ i > Len(list) THEN st
  ELSE RetagLoop(RetagStep(st, list[i]), list, i + 1)

\* one iteration of the loop over o.opt.reGromTags; the new entry is appended
\* to the retags list of the table and stored in the local regormtags
ReGromTagStep(st, retag) ==
  LET parts == Split(retag, Arrow)
  IN IF Len(parts) # 3 THEN Fail(st, "invalid retag format: ", retag)
     ELSE IF parts[1] = Star
          THEN [st EXCEPT !.global = Append(@, FieldGORMTag(parts[2], parts[3]))]
          ELSE [st EXCEPT !.regormtags =
                  Put(@, parts[1],
                      Append(Get(st.retags, parts[1], <<>>), <<parts[2], parts[3]>>))]

RECURSIVE ReGromTagLoop(_, _, _)
ReGromTagLoop(st, list, i) ==
  IF st.err \/ i > Len(list) THEN st
  ELSE ReGromTagLoop(ReGromTagStep(st, list[i]), list, i + 1)

\* IgnoreStep rejecting only a directive with fewer than two segments
IgnoreStep_AtLeastTwo(st, ignore) ==
  LET parts == Split(ignore, Arrow)
  IN IF Len(parts) < 2 THEN Fail(st, "invalid ignore format: ", ignore)
     ELSE LET fields == Split(parts[2], Comma)
          IN IF parts[1] = Star
             THEN [st EXCEPT !.global = Append(@, FieldIgnore(fields))]
             ELSE [st EXCEPT !.ignoreopt =
                     Put(@, parts[1], Get(@, parts[1], <<>>) \o fields)]

\* one iteration of the loop over o.opt.ignore
IgnoreStep(st, ignore) ==
  LET parts == Split(ignore, Arrow)
  IN IF Len(parts) # 2 THEN Fail(st, "invalid ignore format: ", ignore)
     ELSE LET fields == Split(parts[2], Comma)
          IN IF parts[1] = Star
             THEN [st EXCEPT !.global = Append(@, FieldIgnore(fields))]
             ELSE [st EXCEPT !.ignoreopt =
                     Put(@, parts[1], Get(@, parts[1], <<>>) \o fields)]

RECURSIVE IgnoreLoop(_, _, _)
IgnoreLoop(st, list, i) ==
  IF st.err \/ i > Len(list) THEN st
  ELSE IgnoreLoop(IgnoreStep(st, list[i]), list, i + 1)

\* one iteration of the loop over o.opt.dataType
DataTypeStep(st, key, typ) ==
  LET parts == Split(key, Arrow)
  IN IF Len(parts) # 2 THEN Fail(st, "invalid data type mapping format: ", key)
     ELSE IF parts[1] = Star
          THEN [st EXCEPT !.globalTypes = Put(@, parts[2], typ)]
          ELSE [st EXCEPT !.types =
                  Put(@, parts[1], Put(Get(@, parts[1], EmptyMap), parts[2], typ))]

\* the range over the map visits its keys in the order ord
RECURSIVE DataTypeLoop(_, _, _, _)
DataTypeLoop(st, dataType, ord, i) ==
  IF st.err \/ i > Len(ord) THEN st
  ELSE DataTypeLoop(DataTypeStep(st, ord[i], dataType[ord[i]]), dataType, ord, i + 1)

\* the orders in which a range over map m may visit its keys
Orders(m) ==
  {ord \in [1..Cardinality(DOMAIN m) -> DOMAIN m] :
     \A i, j \in DOMAIN ord : i # j => ord[i] # ord[j]}

\* the loop over o.opt.retags, then o.retagopt = retags
RetagPhase(st, o) ==
  IF st.err THEN st ELSE [st EXCEPT !.retagopt = st.retags]

ReGromTagPhase(st, o) ==
  IF st.err THEN st ELSE ReGromTagLoop(st, o.reGromTags, 1)

IgnorePhase(st, o) ==
  IF st.err THEN st ELSE IgnoreLoop(st, o.ignore, 1)

\* generator.WithFileNameStrategy when o.opt.rename is not empty
RenamePhase(st, o) ==
  IF st.err \/ Cardinality(DOMAIN o.rename) = 0 THEN st
  ELSE [st EXCEPT !.fileNameStrategy = TRUE]

DataTypePhase(st, o, ord) ==
  IF st.err \/ o.dataType.isNil THEN st
  ELSE DataTypeLoop(st, o.dataType.m, ord, 1)

\* formatGlobal on a fresh Orm with options o; ord is the iteration order of
\* o.dataType.  The result carries the Orm fields as the function leaves them.
formatGlobal(o, ord) ==
  DataTypePhase(
    RenamePhase(
      IgnorePhase(
        ReGromTagPhase(
          RetagPhase(RetagLoop(NewOrmState, o.retags, 1), o), o), o), o), o, ord)

\* ------------------------------------------------------------------------
\* State
\* ------------------------------------------------------------------------
VARIABLES
  opt,          \* Orm.opt: the options NewOrmCommand was given
  retagopt,     \* Orm.retagopt
  regormtag,    \* Orm.regormtag
  ignoreopt,    \* Orm.ignoreopt
  types,        \* Orm.types
  globalTypes,  \* Orm.globalTypes
  global,       \* Orm.global
  structs,      \* Orm.structs
  generator,    \* Orm.generator: what the command has told the gen.Generator
  pc,           \* where run is
  style,        \* exec: the --style flag, drawn where exec branches on it
  tables,       \* model: the tables it ranges over
  idx,          \* model: position of the range
  opts,         \* model: its local option list
  report        \* the messages run has printed

vars == <<opt, retagopt, regormtag, ignoreopt, types, globalTypes, global,
          structs, generator, pc, style, tables, idx, opts, report>>

ormFields == <<retagopt, regormtag, ignoreopt, types, globalTypes, global>>

\* the directive options with n1 retags, n2 reGromTags, n3 ignores and a
\* data-type map over the key set K
OptionsOf(n1, n2, n3, K) ==
  { [retags |-> r, reGromTags |-> g, ignore |-> i, dataType |-> d] :
      r \in [1..n1 -> RetagPool], g \in [1..n2 -> ReGromTagPool],
      i \in [1..n3 -> IgnorePool],
      d \in {[isNil |-> FALSE, m |-> [k \in K |-> DataTypeFnOf[k]]]} \cup
            (IF K = {} THEN {[isNil |-> TRUE, m |-> EmptyMap]} ELSE {}) }

DirectiveOptions ==
  UNION { OptionsOf(n[1], n[2], n[3], K) :
            n \in {x \in (0..MaxDirectives) \X (0..MaxDirectives) \X (0..MaxDirectives) :
                     x[1] + x[2] + x[3] <= MaxDirectives},
            K \in {S \in SUBSET (DOMAIN DataTypeFnOf) :
                     Cardinality(S) <= MaxDirectives} }

\* the dao options: the tables to generate a DAO for, and the keys of the
\* interface map (an annotation is identified by its key)
DaoPool ==
  { [daoTables |-> <<>>, daoApi |-> {}],
    [daoTables |-> <<Star>>, daoApi |-> {Star}],
    [daoTables |-> << <<"t">> >>, daoApi |-> {Star, <<"t">>, <<"u">>}] }
\* main.go: WithRename(map[string]string{"user": "user_base"})
Rename == Put(EmptyMap, <<"user">>, <<"user_base">>)

NewGenerator ==
  [ created |-> FALSE, fileNameStrategy |-> FALSE, dataTypeMap |-> EmptyMap,
    calls |-> <<>> ]

Init ==
  /\ \E d \in DirectiveOptions, db \in BOOLEAN, da \in DaoPool :
       /\ Cardinality(DOMAIN d.dataType.m) + Len(d.retags) + Len(d.reGromTags)
            + Len(d.ignore) <= MaxDirectives
       /\ opt = [ db |-> db, rename |-> Rename,
                  retags |-> d.retags, reGromTags |-> d.reGromTags,
                  ignore |-> d.ignore, dataType |-> d.dataType,
                  daoTables |-> da.daoTables, daoApi |-> da.daoApi ]
  /\ retagopt = NewOrmState.retagopt
  /\ regormtag = NewOrmState.regormtag
  /\ ignoreopt = NewOrmState.ignoreopt
  /\ types = NewOrmState.types
  /\ globalTypes = NewOrmState.globalTypes
  /\ global = NewOrmState.global
  /\ structs = <<>>
  /\ generator = NewGenerator
  /\ pc = "run"
  /\ style = ""
  /\ tables = <<>>
  /\ idx = 0
  /\ opts = <<>>
  /\ report = <<>>

\* ------------------------------------------------------------------------
\* Orm.run
\* ------------------------------------------------------------------------
RunNoDb ==
  /\ pc = "run"
  /\ ~opt.db
  /\ report' = Append(report, <<"Error: Database connection is not provided">>)
  /\ pc' = "done"
  /\ UNCHANGED <<opt, ormFields, structs, generator, style, tables, idx, opts>>

\* run without the return after a formatGlobal error
AfterFormatGlobal_NoReturn(err) == "exec"

\* where run goes after formatGlobal returned
AfterFormatGlobal(err) == IF err THEN "done" ELSE "exec"

RunFormatGlobal ==
  /\ pc = "run"
  /\ opt.db
  /\ \E ord \in Orders(opt.dataType.m) :
       LET r == formatGlobal(opt, ord)
       IN /\ retagopt' = r.retagopt
          /\ regormtag' = r.regormtag
          /\ ignoreopt' = r.ignoreopt
          /\ types' = r.types
          /\ globalTypes' = r.globalTypes
          /\ global' = r.global
          /\ generator' = [generator EXCEPT !.created = TRUE,
                                            !.fileNameStrategy = r.fileNameStrategy]
          /\ report' = IF r.err
                       THEN Append(report, <<"Error formatting retags: ">> \o r.msg)
                       ELSE report
          /\ pc' = AfterFormatGlobal(r.err)
  /\ UNCHANGED <<opt, structs, style, tables, idx, opts>>

\* ------------------------------------------------------------------------
\* Orm.optByTable / Orm.genoptByTable
\* ------------------------------------------------------------------------
\* the merge with the global entry winning a key collision
TypesForTable_GlobalWins(gT, ts, table) ==
  [ types_t |-> MapsCopy(Get(ts, table, EmptyMap), gT),
    globalTypes |-> gT ]

\* the merge without the clone: types_t is o.globalTypes itself
TypesForTable_NoClone(gT, ts, table) ==
  [ types_t |-> MapsCopy(gT, Get(ts, table, EmptyMap)),
    globalTypes |-> MapsCopy(gT, Get(ts, table, EmptyMap)) ]

\* types_t := maps.Clone(o.globalTypes); maps.Copy(types_t, o.types[table]).
\* globalTypes is o.globalTypes as the merge leaves it.
TypesForTable(gT, ts, table) ==
  [ types_t |-> MapsCopy(MapsClone(gT), Get(ts, table, EmptyMap)),
    globalTypes |-> gT ]

\* optByTable(table): the options it returns, the map it resolves, whether it
\* installs the map with generator.WithDataTypeMap
optByTable(table) ==
  LET ign == IF Has(ignoreopt, table) THEN <<FieldIgnore(ignoreopt[table])>> ELSE <<>>
      rt  == IF Has(retagopt, table)
             THEN [i \in 1..Len(retagopt[table]) |->
                     FieldJSONTag(retagopt[table][i][1], retagopt[table][i][2])]
             ELSE <<>>
      rgt == IF Has(regormtag, table)
             THEN [i \in 1..Len(regormtag[table]) |->
                     FieldGORMTag(regormtag[table][i][1], regormtag[table][i][2])]
             ELSE <<>>
      m   == TypesForTable(globalTypes, types, table)
  IN [ opts |-> ign \o rt \o rgt,
       types_t |-> m.types_t,
       globalTypes |-> m.globalTypes,
       install |-> Cardinality(DOMAIN m.types_t) # 0 ]

\* genoptByTable(table) with o.globalTypes = gT
genoptByTable(gT, table) ==
  IF ~Has(types, table) THEN [install |-> FALSE, types_t |-> EmptyMap]
  ELSE LET types_t == MapsCopy(MapsClone(gT), types[table])
       IN [install |-> Cardinality(DOMAIN types_t) # 0, types_t |-> types_t]

\* ------------------------------------------------------------------------
\* Orm.exec / Orm.model
\* ------------------------------------------------------------------------
\* model's option list before the first table
ModelInitialOpts ==
  (IF Len(opt.ignore) > 0 THEN <<FieldIgnore(opt.ignore)>> ELSE <<>>) \o global

ErrorGenerating(msg) == <<"Error generating Gorm code: ">> \o msg
Success == <<"Gorm code generation completed successfully.">>

\* exec with a non-empty --tables flag
ExecTables ==
  /\ pc = "exec"
  /\ \E tb \in SeqsUpTo(TablePool, MaxTables) :
       /\ Len(tb) > 0
       /\ tables' = tb
  /\ idx' = 1
  /\ opts' = ModelInitialOpts
  /\ pc' = "model"
  /\ UNCHANGED <<opt, ormFields, structs, generator, style, report>>

\* exec without --tables: the tables come from the database
ExecAllTables ==
  /\ pc = "exec"
  /\ \E tb \in DbTables : tables' = tb
  /\ idx' = 1
  /\ opts' = ModelInitialOpts
  /\ pc' = "model"
  /\ UNCHANGED <<opt, ormFields, structs, generator, style, report>>

\* exec without --tables, and GetTables fails
ExecGetTablesFails ==
  /\ pc = "exec"
  /\ report' = Append(report, ErrorGenerating(<<"GetTables">>))
  /\ pc' = "done"
  /\ UNCHANGED <<opt, ormFields, structs, generator, style, tables, idx, opts>>

\* one iteration of model's loop over the tables
ModelStep ==
  /\ pc = "model"
  /\ idx <= Len(tables)
  /\ LET vals == Split(tables[idx], At)
     IN IF Len(vals) > 2
        THEN UNCHANGED <<globalTypes, opts, generator, structs>>
        ELSE LET t  == optByTable(vals[1])
                 g  == genoptByTable(t.globalTypes, vals[1])
                 dm == IF g.install THEN g.types_t
                       ELSE IF t.install THEN t.types_t
                       ELSE generator.dataTypeMap
                 os == opts \o t.opts
                 call == [ op |-> IF Len(vals) = 1 THEN "GenerateModel" ELSE "GenerateModelAs",
                           table |-> vals[1],
                           modelName |-> IF Len(vals) = 1 THEN <<>> ELSE vals[2],
                           opts |-> os,
                           dataTypeMap |-> dm ]
             IN /\ globalTypes' = t.globalTypes
                /\ opts' = os
                /\ generator' = [generator EXCEPT !.dataTypeMap = dm,
                                                  !.calls = Append(@, call)]
                /\ structs' = Append(structs, [TableName |-> vals[1],
                                               ModelName |-> call.modelName])
  /\ idx' = idx + 1
  /\ UNCHANGED <<opt, retagopt, regormtag, ignoreopt, types, global, pc, style,
                 tables, report>>

\* ------------------------------------------------------------------------
\* Orm.dao
\* ------------------------------------------------------------------------
Range(f) == {f[i] : i \in DOMAIN f}

\* the selection without the daoTables filter
DaoSelected_All(metas, daoTables) ==
  SelectSeq(metas, LAMBDA meta : TRUE)

DaoSelected(metas, daoTables) ==
  SelectSeq(metas, LAMBDA meta : Star \in Range(daoTables)
                                  \/ meta.TableName \in Range(daoTables))

\* structs_m[table]: the last selected struct of the table
StructsM(sel, table) ==
  LET hits == {i \in DOMAIN sel : sel[i].TableName = table}
  IN sel[CHOOSE i \in hits : \A j \in hits : j <= i]

RECURSIVE DaoInterfaces(_, _, _, _)
DaoInterfaces(sel, daoApi, ord, i) ==
  IF i > Len(ord) THEN <<>>
  ELSE (IF ord[i] # Star /\ \E k \in DOMAIN sel : sel[k].TableName = ord[i]
        THEN << [op |-> "ApplyInterface", annotae |-> ord[i],
                 structs |-> <<StructsM(sel, ord[i])>>] >>
        ELSE <<>>) \o DaoInterfaces(sel, daoApi, ord, i + 1)

\* dao(): its error, or the calls it makes on the generator; ord is the
\* iteration order of o.opt.daoApi
dao(metas, daoTables, daoApi, ord) ==
  IF Len(metas) = 0
  THEN [err |-> TRUE, msg |-> <<"no structs available for DAO generation">>, calls |-> <<>>]
  ELSE LET sel == DaoSelected(metas, daoTables)
       IN IF Len(sel) = 0
          THEN [err |-> TRUE, msg |-> <<"no matching structs found for DAO generation">>,
                calls |-> <<>>]
          ELSE [err |-> FALSE, msg |-> <<>>,
                calls |-> << [op |-> "ApplyBasic", structs |-> sel] >>
                          \o (IF Star \in daoApi
                              THEN << [op |-> "ApplyInterface", annotae |-> Star,
                                       structs |-> sel] >>
                              ELSE <<>>)
                          \o DaoInterfaces(sel, daoApi, ord, 1)]

Execute == [op |-> "Execute"]

\* exec after model returned, style "model"
ExecStyleModel ==
  /\ pc = "model"
  /\ idx > Len(tables)
  /\ style' = "model"
  /\ generator' = [generator EXCEPT !.calls = Append(@, Execute)]
  /\ report' = Append(report, Success)
  /\ pc' = "done"
  /\ UNCHANGED <<opt, ormFields, structs, tables, idx, opts>>

\* exec after model returned, any other style
ExecStyleDao ==
  /\ pc = "model"
  /\ idx > Len(tables)
  /\ style' = "dao"
  /\ \E ord \in {o \in [1..Cardinality(opt.daoApi) -> opt.daoApi] :
                   \A i, j \in DOMAIN o : i # j => o[i] # o[j]} :
       LET d == dao(structs, opt.daoTables, opt.daoApi, ord)
       IN IF d.err
          THEN /\ report' = Append(report, ErrorGenerating(d.msg))
               /\ UNCHANGED generator
          ELSE /\ generator' = [generator EXCEPT !.calls = (@ \o d.calls) \o <<Execute>>]
               /\ report' = Append(report, Success)
  /\ pc' = "done"
  /\ UNCHANGED <<opt, ormFields, structs, tables, idx, opts>>

Next ==
  \/ RunNoDb
  \/ RunFormatGlobal
  \/ ExecTables
  \/ ExecAllTables
  \/ ExecGetTablesFails
  \/ ModelStep
  \/ ExecStyleModel
  \/ ExecStyleDao

Spec == Init /\ [][Next]_vars

TypeOK ==
  /\ pc \in {"run", "exec", "model", "done"}
  /\ idx \in 0..(Len(tables) + 1)

\* ------------------------------------------------------------------------
\* Vocabulary of the properties
\* ------------------------------------------------------------------------
TableNames == { <<"t">>, <<"u">> }

Scope(d) == Split(d, Arrow)[1]
Segments(d) == Len(Split(d, Arrow))

\* run printed the formatGlobal error
FormatFailed ==
  \E i \in DOMAIN report : report[i][1] = "Error formatting retags: "
\* formatGlobal has returned without error
FormatOk == generator.created /\ ~FormatFailed

\* the option a well-formed directive stands for
RetagOption(d) ==
  FieldJSONTag(Split(d, Arrow)[2], Split(d, Arrow)[3] \o Omitempty)
ReGromTagOption(d) ==
  FieldGORMTag(Split(d, Arrow)[2], Split(d, Arrow)[3])
IgnoreFields(d) == Range(Split(Split(d, Arrow)[2], Comma))

\* the directives of a list with scope s, in input order
Scoped(list, s) == SelectSeq(list, LAMBDA d : Scope(d) = s)

\* the generate calls made so far
GenerateCalls ==
  {generator.calls[i] : i \in {j \in DOMAIN generator.calls :
      generator.calls[j].op \in {"GenerateModel", "GenerateModelAs"}}}

\* the options optByTable returns for table T
TableOpts(T) == Range(optByTable(T).opts)
\* the directives of a list that have scope s and stand for option o
Producing(list, s, Option(_), o) ==
  {i \in DOMAIN list : Scope(list[i]) = s /\ Option(list[i]) = o}

\* ------------------------------------------------------------------------
\* C1
\* ------------------------------------------------------------------------
\* a table-scoped retag is an option of its table, and of the global list or
\* of another table only when a directive of that scope stands for it too
C1_Retag ==
  \A i \in DOMAIN opt.retags :
    LET d == opt.retags[i]
    IN Scope(d) # Star =>
         /\ RetagOption(d) \in TableOpts(Scope(d))
         /\ RetagOption(d) \in Range(global)
              => Producing(opt.retags, Star, RetagOption, RetagOption(d)) # {}
         /\ \A U \in TableNames \ {Scope(d)} :
              RetagOption(d) \in TableOpts(U)
                => Producing(opt.retags, U, RetagOption, RetagOption(d)) # {}

C1_ReGromTag ==
  \A i \in DOMAIN opt.reGromTags :
    LET d == opt.reGromTags[i]
    IN Scope(d) # Star =>
         /\ ReGromTagOption(d) \in TableOpts(Scope(d))
         /\ ReGromTagOption(d) \in Range(global)
              => Producing(opt.reGromTags, Star, ReGromTagOption, ReGromTagOption(d)) # {}
         /\ \A U \in TableNames \ {Scope(d)} :
              ReGromTagOption(d) \in TableOpts(U)
                => Producing(opt.reGromTags, U, ReGromTagOption, ReGromTagOption(d)) # {}

\* a table-scoped ignore is covered by the ignore option of its table; an
\* ignore option of the global list or of another table consists of fields of
\* directives of that scope
C1_Ignore ==
  \A i \in DOMAIN opt.ignore :
    LET d == opt.ignore[i]
    IN Scope(d) # Star =>
         /\ \E o \in TableOpts(Scope(d)) :
              o.kind = "FieldIgnore" /\ IgnoreFields(d) \subseteq Range(o.names)
         /\ \A o \in Range(global) :
              o.kind = "FieldIgnore" =>
                \E j \in DOMAIN opt.ignore :
                  Scope(opt.ignore[j]) = Star /\ Range(o.names) = IgnoreFields(opt.ignore[j])
         /\ \A U \in TableNames \ {Scope(d)} : \A o \in TableOpts(U) :
              o.kind = "FieldIgnore" =>
                Range(o.names) \subseteq
                  UNION {IgnoreFields(opt.ignore[j]) :
                           j \in {k \in DOMAIN opt.ignore : Scope(opt.ignore[k]) = U}}

\* a table-scoped type override is in the map resolved for its table, and in
\* the global map or the map of another table only when a key of that scope
\* registers it
C1_DataType ==
  \A key \in DOMAIN opt.dataType.m :
    LET T == Scope(key)
        f == Split(key, Arrow)[2]
        typ == opt.dataType.m[key]
    IN T # Star =>
         /\ Get(optByTable(T).types_t, f, "") = typ
         /\ Get(globalTypes, f, "") = typ
              => Get(opt.dataType.m, Str(Star, f), "") = typ
         /\ \A U \in TableNames \ {T} :
              Get(optByTable(U).types_t, f, "") = typ
                => \/ Get(opt.dataType.m, Str(U, f), "") = typ
                   \/ Get(opt.dataType.m, Str(Star, f), "") = typ

\* the three rule kinds of C1 that the code routes as the claim says
C1_OtherKinds == FormatOk => C1_Retag /\ C1_Ignore /\ C1_DataType

\* C1: after formatGlobal every directive with a literal table scope T
\* (ignore, retag, regrom-tag, data-type) has its rule in T's per-table set
\* and only there: optByTable(T) yields it, the global list and optByTable(U)
\* of another table U do not.
C1_TableScopedOnlyInTable ==
  FormatOk => C1_Retag /\ C1_ReGromTag /\ C1_Ignore /\ C1_DataType

\* ------------------------------------------------------------------------
\* C2
\* ------------------------------------------------------------------------
\* no retag, regrom-tag or ignore directive has scope T
NoTableDirective(T) ==
  /\ Scoped(opt.retags, T) = <<>>
  /\ Scoped(opt.reGromTags, T) = <<>>
  /\ Scoped(opt.ignore, T) = <<>>

\* C2: in model(), whatever tables were processed before it, a table without
\* a table-scoped directive of its own is generated with the options model()
\* starts from (the global ones) and no per-table addition.
C2_NoDirectiveGlobalOnly ==
  \A c \in GenerateCalls :
    NoTableDirective(c.table) => c.opts = ModelInitialOpts

\* ------------------------------------------------------------------------
\* C9
\* ------------------------------------------------------------------------
\* the field names the ignore directives list
AllIgnoreFields == UNION {IgnoreFields(opt.ignore[i]) : i \in DOMAIN opt.ignore}

\* formatGlobal's part of C9: a '*' directive is one global ignore option of
\* exactly its fields, a table directive appends its fields to the table's list
C9_Parsed ==
  FormatOk =>
    \A i \in DOMAIN opt.ignore :
      LET d == opt.ignore[i]
          fields == Split(Split(d, Arrow)[2], Comma)
      IN IF Scope(d) = Star
         THEN FieldIgnore(fields) \in Range(global)
         ELSE /\ Has(ignoreopt, Scope(d))
              /\ \E k \in 0..(Len(ignoreopt[Scope(d)]) - Len(fields)) :
                   SubSeq(ignoreopt[Scope(d)], k + 1, k + Len(fields)) = fields

\* C9: an ignore directive 'S->f1,...,fn' yields one ignore rule of exactly
\* the fields f1..fn (global for '*', else appended to S's list), and the
\* ignore options handed to the generator name only those fields.
C9_IgnoreNamesOnlyFields ==
  /\ C9_Parsed
  /\ \A c \in GenerateCalls : \A o \in Range(c.opts) :
       o.kind = "FieldIgnore" => Range(o.names) \subseteq AllIgnoreFields

\* ------------------------------------------------------------------------
\* C10
\* ------------------------------------------------------------------------
\* C10: when table U is generated, the data-type map installed on the
\* generator is the global overrides merged with U's own overrides.
C10_InstalledMapIsOwn ==
  \A c \in GenerateCalls :
    c.dataTypeMap = MapsCopy(globalTypes, Get(types, c.table, EmptyMap))

\* the same for the tables generated while some override applies to them
C10_WhenSomeOverrideApplies ==
  \A c \in GenerateCalls :
    MapsCopy(globalTypes, Get(types, c.table, EmptyMap)) # EmptyMap
      => c.dataTypeMap = MapsCopy(globalTypes, Get(types, c.table, EmptyMap))

\* ------------------------------------------------------------------------
\* C7
\* ------------------------------------------------------------------------
RetagEntry(d) == <<Split(d, Arrow)[2], Split(d, Arrow)[3] \o Omitempty>>
ReGromTagEntry(d) == <<Split(d, Arrow)[2], Split(d, Arrow)[3]>>

\* one entry per directive of scope T, in input order
EntriesOf(list, T, Entry(_)) ==
  [i \in 1..Len(Scoped(list, T)) |-> Entry(Scoped(list, T)[i])]

C7_Retag ==
  \A T \in TableNames : Get(retagopt, T, <<>>) = EntriesOf(opt.retags, T, RetagEntry)

C7_ReGromTag ==
  \A T \in TableNames : Get(regormtag, T, <<>>) = EntriesOf(opt.reGromTags, T, ReGromTagEntry)

C7_DataType ==
  \A key \in DOMAIN opt.dataType.m :
    Scope(key) # Star =>
      Get(Get(types, Scope(key), EmptyMap), Split(key, Arrow)[2], "") = opt.dataType.m[key]

\* the part of C7 about retag lists and data-type maps
C7_RetagAndDataType == FormatOk => C7_Retag /\ C7_DataType

\* C7: duplicates are kept: the per-table retag list and the per-table
\* regrom-tag list hold one entry per directive of that table, in input
\* order; a data-type key of a table maps to the function last written for it.
C7_AppendInInputOrder ==
  FormatOk => C7_Retag /\ C7_ReGromTag /\ C7_DataType

\* ------------------------------------------------------------------------
\* C3
\* ------------------------------------------------------------------------
\* C3: after formatGlobal every directive with scope '*' has its rule in the
\* global set (o.global, o.globalTypes for a data type); no per-table map has
\* an entry for '*' or an entry that no directive of that table stands for,
\* and optByTable returns no option for a table without directives.
C3_GlobalScopeOnlyGlobal ==
  FormatOk =>
    /\ \A i \in DOMAIN opt.retags :
         Scope(opt.retags[i]) = Star => RetagOption(opt.retags[i]) \in Range(global)
    /\ \A i \in DOMAIN opt.reGromTags :
         Scope(opt.reGromTags[i]) = Star
           => ReGromTagOption(opt.reGromTags[i]) \in Range(global)
    /\ \A i \in DOMAIN opt.ignore :
         Scope(opt.ignore[i]) = Star
           => FieldIgnore(Split(Split(opt.ignore[i], Arrow)[2], Comma)) \in Range(global)
    /\ \A key \in DOMAIN opt.dataType.m :
         Scope(key) = Star
           => Get(globalTypes, Split(key, Arrow)[2], "") = opt.dataType.m[key]
    /\ Star \notin (DOMAIN retagopt) \cup (DOMAIN regormtag)
                   \cup (DOMAIN ignoreopt) \cup (DOMAIN types)
    /\ \A T \in DOMAIN retagopt : \A e \in Range(retagopt[T]) :
         \E i \in DOMAIN opt.retags :
           Scope(opt.retags[i]) = T /\ RetagEntry(opt.retags[i]) = e
    /\ \A T \in DOMAIN ignoreopt : \A f \in Range(ignoreopt[T]) :
         \E i \in DOMAIN opt.ignore :
           Scope(opt.ignore[i]) = T /\ f \in IgnoreFields(opt.ignore[i])
    /\ \A T \in DOMAIN types : \A f \in DOMAIN types[T] :
         Has(opt.dataType.m, Str(T, f))
    /\ \A T \in TableNames : NoTableDirective(T) => optByTable(T).opts = <<>>

\* formatGlobal succeeded on '*' directives of two kinds and a table was generated
C3_Witness ==
  /\ FormatOk
  /\ \E i \in DOMAIN opt.retags : Scope(opt.retags[i]) = Star
  /\ \E i \in DOMAIN opt.ignore : Scope(opt.ignore[i]) = Star
  /\ Len(global) = 2
  /\ GenerateCalls # {}

\* ------------------------------------------------------------------------
\* C4
\* ------------------------------------------------------------------------
\* C4: the map optByTable(T) resolves has the keys of the global overrides
\* and of T's overrides, a key of T's overrides maps to T's function, any
\* other key to the global one, and o.globalTypes is left as it was.
C4_TableWins ==
  FormatOk =>
    \A T \in TableNames :
      LET r == optByTable(T)
          own == Get(types, T, EmptyMap)
      IN /\ DOMAIN r.types_t = (DOMAIN globalTypes) \cup (DOMAIN own)
         /\ \A f \in DOMAIN r.types_t :
              r.types_t[f] = IF Has(own, f) THEN own[f] ELSE globalTypes[f]
         /\ r.globalTypes = globalTypes

\* a key overridden globally and for table t, and t generated with t's function
C4_Witness ==
  /\ FormatOk
  /\ Has(globalTypes, <<"a">>)
  /\ Has(types, <<"t">>) /\ Has(types[<<"t">>], <<"a">>)
  /\ types[<<"t">>][<<"a">>] # globalTypes[<<"a">>]
  /\ \E c \in GenerateCalls :
       c.table = <<"t">> /\ Get(c.dataTypeMap, <<"a">>, "") = types[<<"t">>][<<"a">>]

\* ------------------------------------------------------------------------
\* C5
\* ------------------------------------------------------------------------
\* the directives without the segment count of their kind
Malformed ==
  {opt.retags[i] : i \in {j \in DOMAIN opt.retags : Segments(opt.retags[j]) # 3}}
  \cup {opt.reGromTags[i] :
          i \in {j \in DOMAIN opt.reGromTags : Segments(opt.reGromTags[j]) # 3}}
  \cup {opt.ignore[i] : i \in {j \in DOMAIN opt.ignore : Segments(opt.ignore[j]) # 2}}
  \cup {key \in DOMAIN opt.dataType.m : Segments(key) # 2}

\* C5: formatGlobal returns an error exactly when some directive has not the
\* segment count of its kind (3 for retag and regrom-tag, 2 for ignore and
\* data-type keys), and the error message ends with such a directive.
C5_ErrorIffMalformed ==
  generator.created =>
    /\ FormatFailed <=> Malformed # {}
    /\ FormatFailed =>
         \E d \in Malformed :
           LET msg == report[Len(report)]
           IN Len(msg) = 2 + Len(d) /\ SubSeq(msg, 3, Len(msg)) = d

\* formatGlobal failed on options that hold a well-formed directive too
C5_Witness ==
  /\ FormatFailed
  /\ Malformed # {}
  /\ \E i \in DOMAIN opt.ignore : Segments(opt.ignore[i]) = 2

\* ------------------------------------------------------------------------
\* C6
\* ------------------------------------------------------------------------
\* C6: when formatGlobal fails, run ends there: exec is not entered, nothing
\* is generated, applied or executed, and no success is reported.
C6_FormatErrorAborts ==
  FormatFailed =>
    /\ pc = "done"
    /\ generator.calls = <<>>
    /\ structs = <<>>
    /\ style = "" /\ tables = <<>>
    /\ Success \notin Range(report)

\* run has ended on a formatGlobal error
C6_Witness ==
  /\ FormatFailed
  /\ pc = "done"
  /\ Len(report) = 1

\* ------------------------------------------------------------------------
\* C8
\* ------------------------------------------------------------------------
\* C8: the resolver's maps and the global option list are written by
\* formatGlobal only; no step of exec or model changes them, and no table is
\* processed before formatGlobal returned.
C8_ReadOnlyAfterFormat ==
  /\ [][pc # "run" => UNCHANGED ormFields]_vars
  /\ [](pc \in {"exec", "model"} => FormatOk)

\* two tables generated while a global and a table override exist
C8_Witness ==
  /\ pc = "model"
  /\ Cardinality(GenerateCalls) >= 2
  /\ globalTypes # EmptyMap
  /\ types # EmptyMap


\* ------------------------------------------------------------------------
\* C11
\* ------------------------------------------------------------------------
\* positions of the generator calls of exec and dao
ExecuteAt == {i \in DOMAIN generator.calls : generator.calls[i].op = "Execute"}
ApplyAt ==
  {i \in DOMAIN generator.calls :
     generator.calls[i].op \in {"ApplyBasic", "ApplyInterface"}}

\* run printed the error exec returned
ExecFailed ==
  \E i \in DOMAIN report : report[i][1] = "Error generating Gorm code: "

\* the generated structs whose table o.opt.daoTables lists
DaoListed ==
  {m \in Range(structs) :
     Star \in Range(opt.daoTables) \/ m.TableName \in Range(opt.daoTables)}

\* C11: generator.Execute is called at most once, only after model() went
\* through all its tables without error and, for a style other than "model",
\* after dao() succeeded; with style "model" dao() makes no call.  dao()
\* applies only generated structs whose table daoTables lists (all of them
\* when it lists '*'), and when no struct was generated or none is listed it
\* fails without applying anything, so nothing is executed.
C11_ExecuteAfterModelAndDao ==
  /\ Cardinality(ExecuteAt) <= 1
  /\ ExecuteAt # {} =>
       /\ ExecuteAt = {Len(generator.calls)}
       /\ pc = "done" /\ idx > Len(tables)
       /\ ~ExecFailed
       /\ style # "model" =>
            \E i \in ApplyAt : generator.calls[i].op = "ApplyBasic"
  /\ style = "model" => ApplyAt = {}
  /\ \A i \in ApplyAt :
       /\ generator.calls[i].structs # <<>>
       /\ Range(generator.calls[i].structs) \subseteq DaoListed
  /\ (pc = "done" /\ style = "dao") =>
       IF DaoListed = {}
       THEN ApplyAt = {} /\ ExecuteAt = {} /\ ExecFailed
       ELSE ApplyAt # {} /\ ExecuteAt # {} /\ ~ExecFailed

\* style "dao", two structs generated, the DAO applied to the listed one only,
\* then Execute
C11_Witness ==
  /\ style = "dao"
  /\ ExecuteAt # {}
  /\ Len(structs) = 2
  /\ \E i \in ApplyAt :
       generator.calls[i].op = "ApplyBasic" /\ Len(generator.calls[i].structs) = 1

====
